---- MODULE Spec2Model ----
(***************************************************************************)
(* Model of the blog application of content-manager (src/blog/models.py):  *)
(* the Category snippet (clean, save, parent foreign key) and the          *)
(* BlogIndexPage listing (posts, get_context, list_categories, list_tags). *)
(***************************************************************************)
EXTENDS Integers, Sequences, FiniteSets, TLC

VARIABLES
    categories,   \* the Category table: pk -> row
    categorySeq,  \* the last primary key the Category table has issued
    inflight,     \* per editor: the Category instance that passed clean() and
                  \* is not saved yet
    lastOp,       \* the last Category call: its arguments and its outcome
    entries,      \* the BlogEntryPage table: pk -> row
    postsPerPage, \* BlogIndexPage.posts_per_page of the index
    response      \* the last BlogIndexPage call: its arguments and its outcome

vars == <<categories, categorySeq, inflight, lastOp, entries, postsPerPage, response>>

----------------------------------------------------------------------------
(* Bounds *)

\* primary keys of the Category table in the hierarchy specification
MaxCats == 3
\* primary keys of the Category table in the field specification
MaxFormCats == 2

----------------------------------------------------------------------------
(* Category: fields *)

\* parent = NULL (null=True): no primary key is 0
NullPk == 0

\* posts_per_page = models.PositiveSmallIntegerField(default=10, ...)
DefaultPostsPerPage == 10

CatIds == 1..MaxCats
FormCatIds == 1..MaxFormCats

\* text is a sequence of one-character strings
EmptyStr == <<>>

\* an optional value: None, or Some(x)
None == {}
Some(x) == {x}
Val(o) == CHOOSE x \in o : TRUE

ErrSelf == "Parent category cannot be self."
ErrCircular == "Cannot have circular Parents."
ErrIntegrity == "IntegrityError"
Ok == "ok"

DefaultLocale == "fr"
Locales == {"fr", "en"}

----------------------------------------------------------------------------
(* django.template.defaultfilters.slugify, as Category.save uses it:        *)
(* NFKD-normalise and drop what is not ASCII, lower-case, drop what is not  *)
(* a word character, white space or a hyphen, turn each run of hyphens and  *)
(* white space into one hyphen, strip leading and trailing - and _.         *)
(* Text is over the alphabet below: the ASCII letters, digits, punctuation  *)
(* and white space a string can spell, U+00A1..U+00FF and the euro sign;    *)
(* the operators are not defined on other characters.                       *)

UpperChars ==
    <<"A", "B", "C", "D", "E", "F", "G", "H", "I", "J", "K", "L", "M", "N",
      "O", "P", "Q", "R", "S", "T", "U", "V", "W", "X", "Y", "Z">>

LowerChars ==
    <<"a", "b", "c", "d", "e", "f", "g", "h", "i", "j", "k", "l", "m", "n",
      "o", "p", "q", "r", "s", "t", "u", "v", "w", "x", "y", "z">>

DigitChars == <<"0", "1", "2", "3", "4", "5", "6", "7", "8", "9">>

PunctChars ==
    {"!", "\"", "#", "$", "%", "&", "'", "(", ")", "*", "+", ",", ".", "/",
     ":", ";", "<", "=", ">", "?", "@", "[", "\\", "]", "^", "{", "|", "}",
     "~"}

\* white space: what \s matches
SpaceChars == {" ", "\t", "\n", "\r", "\f"}

\* [-\s]
SepChars == SpaceChars \cup {"-"}

\* \w in ASCII text
WordChars ==
    {UpperChars[i] : i \in DOMAIN UpperChars} \cup {LowerChars[i] : i \in DOMAIN LowerChars}
        \cup {DigitChars[i] : i \in DOMAIN DigitChars} \cup {"_"}

AsciiChars == WordChars \cup SepChars \cup PunctChars

NonAsciiChars ==
    {"¡", "¢", "£", "¤", "¥", "¦", "§", "¨", "©", "ª", "«", "¬", "®", "¯",
     "°", "±", "²", "³", "´", "µ", "¶", "·", "¸", "¹", "º", "»", "¼", "½",
     "¾", "¿", "À", "Á", "Â", "Ã", "Ä", "Å", "Æ", "Ç", "È", "É", "Ê", "Ë",
     "Ì", "Í", "Î", "Ï", "Ð", "Ñ", "Ò", "Ó", "Ô", "Õ", "Ö", "×", "Ø", "Ù",
     "Ú", "Û", "Ü", "Ý", "Þ", "ß", "à", "á", "â", "ã", "ä", "å", "æ", "ç",
     "è", "é", "ê", "ë", "ì", "í", "î", "ï", "ð", "ñ", "ò", "ó", "ô", "õ",
     "ö", "÷", "ø", "ù", "ú", "û", "ü", "ý", "þ", "ÿ", "€"}

Alphabet == AsciiChars \cup NonAsciiChars

\* the ASCII characters of the NFKD form of a character that is not ASCII
NfkdAscii(ch) ==
    CASE ch \in {"¨", "¯", "´", "¸"} -> <<" ">>
      [] ch \in {"ª", "à", "á", "â", "ã", "ä", "å"} -> <<"a">>
      [] ch \in {"²"} -> <<"2">>
      [] ch \in {"³"} -> <<"3">>
      [] ch \in {"¹"} -> <<"1">>
      [] ch \in {"º", "ò", "ó", "ô", "õ", "ö"} -> <<"o">>
      [] ch \in {"¼"} -> <<"1", "4">>
      [] ch \in {"½"} -> <<"1", "2">>
      [] ch \in {"¾"} -> <<"3", "4">>
      [] ch \in {"À", "Á", "Â", "Ã", "Ä", "Å"} -> <<"A">>
      [] ch \in {"Ç"} -> <<"C">>
      [] ch \in {"È", "É", "Ê", "Ë"} -> <<"E">>
      [] ch \in {"Ì", "Í", "Î", "Ï"} -> <<"I">>
      [] ch \in {"Ñ"} -> <<"N">>
      [] ch \in {"Ò", "Ó", "Ô", "Õ", "Ö"} -> <<"O">>
      [] ch \in {"Ù", "Ú", "Û", "Ü"} -> <<"U">>
      [] ch \in {"Ý"} -> <<"Y">>
      [] ch \in {"ç"} -> <<"c">>
      [] ch \in {"è", "é", "ê", "ë"} -> <<"e">>
      [] ch \in {"ì", "í", "î", "ï"} -> <<"i">>
      [] ch \in {"ñ"} -> <<"n">>
      [] ch \in {"ù", "ú", "û", "ü"} -> <<"u">>
      [] ch \in {"ý", "ÿ"} -> <<"y">>
      [] OTHER -> <<>>

\* unicodedata.normalize("NFKD", ch).encode("ascii", "ignore")
AsciiFold(ch) ==
    CASE ch \in NonAsciiChars -> NfkdAscii(ch)
      [] ch \in AsciiChars -> <<ch>>

\* str.lower() of an ASCII character
LowerChar(ch) ==
    CASE \E i \in DOMAIN UpperChars : UpperChars[i] = ch ->
            LowerChars[CHOOSE i \in DOMAIN UpperChars : UpperChars[i] = ch]
      [] ch \in AsciiChars -> ch

RECURSIVE LowerAll(_)
LowerAll(s) ==
    IF s = <<>> THEN <<>> ELSE <<LowerChar(Head(s))>> \o LowerAll(Tail(s))

RECURSIVE ToAsciiLower(_)
ToAsciiLower(s) ==
    IF s = <<>> THEN <<>>
    ELSE LowerAll(AsciiFold(Head(s))) \o ToAsciiLower(Tail(s))

\* re.sub(r"[^\w\s-]", "", value) of ASCII text
RECURSIVE DropOthers(_)
DropOthers(s) ==
    IF s = <<>> THEN <<>>
    ELSE (CASE Head(s) \in WordChars \cup SepChars -> <<Head(s)>>
            [] Head(s) \in PunctChars -> <<>>)
         \o DropOthers(Tail(s))

\* re.sub(r"[-\s]+", "-", value) of ASCII text
RECURSIVE CollapseSeps(_)
CollapseSeps(s) ==
    IF s = <<>> THEN <<>>
    ELSE CASE Head(s) \in SepChars ->
                 IF Len(s) > 1 /\ s[2] \in SepChars
                 THEN CollapseSeps(Tail(s))
                 ELSE <<"-">> \o CollapseSeps(Tail(s))
           [] Head(s) \in AsciiChars \ SepChars ->
                 <<Head(s)>> \o CollapseSeps(Tail(s))

\* .strip("-_")
StripChars == {"-", "_"}

RECURSIVE LStrip(_)
LStrip(s) ==
    IF s # <<>> /\ Head(s) \in StripChars THEN LStrip(Tail(s)) ELSE s

RECURSIVE RStrip(_)
RStrip(s) ==
    IF s # <<>> /\ s[Len(s)] \in StripChars THEN RStrip(SubSeq(s, 1, Len(s) - 1)) ELSE s

slugify(name) == RStrip(LStrip(CollapseSeps(DropOthers(ToAsciiLower(name)))))

----------------------------------------------------------------------------
(* Category: clean, save, delete *)

CategoryRow(name, slug, parent, description, locale) ==
    [name |-> name, slug |-> slug, parent |-> parent,
     description |-> description, locale |-> locale]

\* The rows reached from pk by following parent at most n times.
RECURSIVE AncestorsWithin(_, _, _)
AncestorsWithin(pk, n, cats) ==
    IF n = 0 \/ pk \notin DOMAIN cats \/ cats[pk].parent = NullPk
    THEN {}
    ELSE {cats[pk].parent} \cup AncestorsWithin(cats[pk].parent, n - 1, cats)

Ancestors(pk, cats) == AncestorsWithin(pk, Cardinality(DOMAIN cats), cats)

\* clean() walking the whole chain of parents
cleanDeep(pk, parent, cats) ==
    IF parent # NullPk
    THEN IF parent = pk
         THEN ErrSelf
         ELSE IF pk # NullPk /\ pk \in Ancestors(parent, cats)
              THEN ErrCircular
              ELSE Ok
    ELSE Ok

\* Category.clean: self is the row pk (NullPk when not yet stored) carrying
\* the new parent, a stored row; parent.parent is read from the table.
clean(pk, parent, cats) ==
    IF parent # NullPk
    THEN IF parent = pk
         THEN ErrSelf
         ELSE IF cats[parent].parent # NullPk /\ cats[parent].parent = pk
              THEN ErrCircular
              ELSE Ok
    ELSE Ok

\* save() deriving the slug from the name whatever slug is given
SlugAlwaysFromName(name, slug) == slugify(name)

\* Category.save, first statement: if not self.slug: self.slug = slugify(self.name)
SlugOnSave(name, slug) ==
    IF slug = EmptyStr THEN slugify(name) ELSE slug

\* name and slug are unique=True: another row with the same value refuses the write
UniqueOk(pk, row, cats) ==
    \A o \in DOMAIN cats \ {pk} :
        cats[o].name # row.name /\ cats[o].slug # row.slug

\* parent is a foreign key: the row written at pk refers to a stored row
ParentStored(at, parent, cats) ==
    parent = NullPk \/ parent \in DOMAIN cats \cup {at}

\* the primary key the table gives a new row: keys are issued once, a deleted
\* row's key is not given again
NewPk(seq) == seq + 1

\* Category.save: derive the slug, then write the row (super().save): a new
\* row when the instance has no primary key or its row is gone, the row pk
\* otherwise. save() does not call clean().
save(seq, pk, name, slug, parent, description, locale, cats) ==
    LET row == CategoryRow(name, SlugOnSave(name, slug), parent, description, locale)
        at == IF pk = NullPk THEN NewPk(seq) ELSE pk
    IN  IF UniqueOk(pk, row, cats) /\ ParentStored(at, parent, cats)
        THEN [result |-> Ok, stored |-> at,
              seq |-> IF pk = NullPk THEN at ELSE seq,
              cats |-> [x \in DOMAIN cats \cup {at} |-> IF x = at THEN row ELSE cats[x]]]
        ELSE [result |-> ErrIntegrity, stored |-> NullPk, seq |-> seq, cats |-> cats]

CatOp(op, pk, name, slug, parent, description, result, stored) ==
    [op |-> op, pk |-> pk, name |-> name, slug |-> slug, parent |-> parent,
     description |-> description, result |-> result, stored |-> stored]

NoOp == CatOp("none", NullPk, EmptyStr, EmptyStr, NullPk, EmptyStr, Ok, NullPk)

NoResponse == [op |-> "none"]

\* the editors whose requests may overlap
Editors == {"e1", "e2"}

\* a Category instance in memory
Instance(pk, name, slug, parent, description, locale) ==
    [pk |-> pk, name |-> name, slug |-> slug, parent |-> parent,
     description |-> description, locale |-> locale]

NoInflight == [e \in Editors |-> None]

\* the locale of the instance with primary key pk; a new one takes the default locale
LocaleOf(pk, cats) == IF pk = NullPk THEN DefaultLocale ELSE cats[pk].locale

\* Calls are handled one at a time: a call runs when the outcome of the one
\* before it has been returned.
Idle == lastOp.op = "none" /\ response.op = "none"

\* the outcome of the last call is returned to the caller
Respond ==
    /\ ~Idle
    /\ lastOp' = NoOp
    /\ response' = NoResponse
    /\ UNCHANGED <<categories, categorySeq, inflight, entries, postsPerPage>>

\* clean() called on the instance (pk, ..., parent): pk = NullPk is an instance
\* not stored yet, parent is NullPk or a row just loaded. clean() writes nothing.
CleanCall(pk, name, slug, parent, description) ==
    /\ Idle
    /\ pk = NullPk \/ pk \in DOMAIN categories
    /\ parent = NullPk \/ parent \in DOMAIN categories
    /\ lastOp' = CatOp("clean", pk, name, slug, parent, description,
                       clean(pk, parent, categories), NullPk)
    /\ UNCHANGED <<categories, categorySeq, entries, postsPerPage, response>>

\* save() called on the instance (pk, ..., parent). max bounds the primary
\* keys the table issues.
SaveCall(max, pk, name, slug, parent, description, locale) ==
    /\ Idle
    /\ pk = NullPk => categorySeq < max
    /\ LET r == save(categorySeq, pk, name, slug, parent, description, locale, categories)
       IN  /\ lastOp' = CatOp("save", pk, name, slug, parent, description,
                              r.result, r.stored)
           /\ categories' = r.cats
           /\ categorySeq' = r.seq
    /\ UNCHANGED <<entries, postsPerPage, response>>

\* Category.clean called on an instance
Clean(pk, name, slug, parent, description) ==
    /\ CleanCall(pk, name, slug, parent, description)
    /\ UNCHANGED inflight

\* Category.save called on an instance built or loaded for it, whether or not
\* clean() was called on it before
Save(max, pk, name, slug, parent, description) ==
    /\ pk = NullPk \/ pk \in DOMAIN categories
    /\ parent = NullPk \/ parent \in DOMAIN categories
    /\ SaveCall(max, pk, name, slug, parent, description, LocaleOf(pk, categories))
    /\ UNCHANGED inflight

\* An editor's request, first half: the instance is built from what the editor
\* gives and checked by clean(); when clean() raises nothing the request goes on
\* with the instance, otherwise it ends with the validation error.
Validate(e, pk, name, slug, parent, description) ==
    /\ inflight[e] = None
    /\ CleanCall(pk, name, slug, parent, description)
    /\ inflight' = [inflight EXCEPT ![e] =
                       IF clean(pk, parent, categories) = Ok
                       THEN Some(Instance(pk, name, slug, parent, description,
                                          LocaleOf(pk, categories)))
                       ELSE None]

\* An editor's request, second half: the instance that passed clean() is
\* stored by save(). Other calls may have run since clean().
Store(max, e) ==
    /\ inflight[e] # None
    /\ LET i == Val(inflight[e])
       IN  SaveCall(max, i.pk, i.name, i.slug, i.parent, i.description, i.locale)
    /\ inflight' = [inflight EXCEPT ![e] = None]

\* Deleting a category: parent is on_delete=SET_NULL, so the children stay with
\* parent = NULL; CategoryEntryPage.category is on_delete=CASCADE, so the
\* entries lose the category.
DeleteCategory(pk) ==
    /\ Idle
    /\ pk \in DOMAIN categories
    /\ categories' = [x \in DOMAIN categories \ {pk} |->
                        IF categories[x].parent = pk
                        THEN [categories[x] EXCEPT !.parent = NullPk]
                        ELSE categories[x]]
    /\ entries' = [e \in DOMAIN entries |->
                        [entries[e] EXCEPT !.cats = @ \ {pk}]]
    /\ lastOp' = CatOp("delete", pk, EmptyStr, EmptyStr, NullPk, EmptyStr, Ok, NullPk)
    /\ UNCHANGED <<categorySeq, inflight, postsPerPage, response>>

----------------------------------------------------------------------------
(* Category specifications *)

InitEmpty ==
    /\ categories = <<>>
    /\ categorySeq = 0
    /\ inflight = NoInflight
    /\ lastOp = NoOp
    /\ entries = <<>>
    /\ postsPerPage = DefaultPostsPerPage
    /\ response = NoResponse

\* what an editor types: name, slug, description
Forms ==
    << << <<"A", "é">>, EmptyStr, EmptyStr >>,
       << <<"a", "e">>, EmptyStr, <<"t">> >>,
       << <<"D", "\t", "-", "1", "!">>, EmptyStr, <<"t">> >>,
       << <<"_", "€">>, EmptyStr, EmptyStr >>,
       << <<"D", "\t", "-", "1", "!">>, <<"a", "e">>, EmptyStr >> >>

\* the name given to the category of primary key pk in the hierarchy specification
HierName(pk) == <<"c", "-">> \o <<LowerChars[pk]>>

\* Hierarchy: two editors create categories, change parents and delete; every
\* save() is that of an instance the same request has passed through clean().
HierCreate ==
    \E e \in Editors :
        /\ categorySeq < MaxCats
        /\ Validate(e, NullPk, HierName(NewPk(categorySeq)), EmptyStr, NullPk, EmptyStr)

HierUpdate ==
    \E e \in Editors, pk \in CatIds, parent \in CatIds \cup {NullPk} :
        /\ pk \in DOMAIN categories
        /\ Validate(e, pk, categories[pk].name, categories[pk].slug,
                    parent, categories[pk].description)

HierStore == \E e \in Editors : Store(MaxCats, e)

HierDelete == \E pk \in CatIds : DeleteCategory(pk)

NextHierarchy == HierCreate \/ HierUpdate \/ HierStore \/ HierDelete \/ Respond

SpecHierarchy == InitEmpty /\ [][NextHierarchy]_vars

\* Fields: clean() and save() called on instances of every kind
FormClean ==
    \E pk \in FormCatIds \cup {NullPk}, parent \in FormCatIds \cup {NullPk},
       f \in DOMAIN Forms :
        Clean(pk, Forms[f][1], Forms[f][2], parent, Forms[f][3])

FormSave ==
    \E pk \in FormCatIds \cup {NullPk}, parent \in FormCatIds \cup {NullPk},
       f \in DOMAIN Forms :
        Save(MaxFormCats, pk, Forms[f][1], Forms[f][2], parent, Forms[f][3])

FormDelete == \E pk \in FormCatIds : DeleteCategory(pk)

NextCategory == FormClean \/ FormSave \/ FormDelete \/ Respond

SpecCategory == InitEmpty /\ [][NextCategory]_vars

----------------------------------------------------------------------------
(* Blog: stored data *)

\* entries of the BlogEntryPage table
MaxEntries == 3
\* largest posts_per_page tried
MaxPerPage == 2
\* how far past the last page the page parameter goes
PageBeyond == 5
\* largest min_count given to list_tags
MaxMinCount == 2
\* rows of the User table
MaxUsers == 2

EntryIds == 1..MaxEntries

\* Python's truth value of an optional string or number
TruthyStr(o) == o # None /\ Val(o) # EmptyStr
TruthyInt(o) == o # None /\ Val(o) # 0

\* the Tag table (slugs are unique) and the User table (ids)
TagA == <<"t", "a">>
TagB == <<"t", "b">>
StoredTags == {TagA, TagB}
StoredUsers == 1..MaxUsers
TagName(slug) == <<"T">> \o slug

\* the Category table of the blog specifications: one category per locale
SlugA == <<"c", "a">>
SlugB == <<"c", "b">>
BlogCategories ==
    (1 :> CategoryRow(<<"C", "a">>, SlugA, NullPk, EmptyStr, "fr")) @@
    (2 :> CategoryRow(<<"C", "b">>, SlugB, 1, EmptyStr, "en"))

EntryRow(live, descendant, date, owner, etags, ecats) ==
    [live |-> live, descendant |-> descendant, date |-> date, owner |-> owner,
     tags |-> etags, cats |-> ecats]

\* date__year of a date; dates are day numbers
YearOf(date) == IF date <= 1 THEN 2023 ELSE 2024

\* the entries an index is tried with
EntryProfiles ==
    { EntryRow(TRUE, TRUE, 2, 1, {TagA}, {1}),
      EntryRow(TRUE, TRUE, 1, 2, {TagA, TagB}, {1, 2}),
      EntryRow(TRUE, TRUE, 2, 2, {}, {}),
      EntryRow(FALSE, TRUE, 2, 1, {TagA}, {1}),
      EntryRow(TRUE, FALSE, 1, 1, {TagA, TagB}, {1}) }

InitBlog ==
    /\ categories = BlogCategories
    /\ categorySeq = Cardinality(DOMAIN BlogCategories)
    /\ inflight = NoInflight
    /\ lastOp = NoOp
    /\ entries \in [EntryIds -> EntryProfiles]
    /\ postsPerPage \in 1..MaxPerPage
    /\ response = NoResponse

\* an index left with the default posts_per_page
InitFilter ==
    /\ categories = BlogCategories
    /\ categorySeq = Cardinality(DOMAIN BlogCategories)
    /\ inflight = NoInflight
    /\ lastOp = NoOp
    /\ entries \in [EntryIds -> EntryProfiles]
    /\ postsPerPage = DefaultPostsPerPage
    /\ response = NoResponse

----------------------------------------------------------------------------
(* BlogIndexPage.posts and the queryset filters *)

\* posts without .live()
postsWithDrafts(ents) == {e \in DOMAIN ents : ents[e].descendant}

\* BlogEntryPage.objects.descendant_of(self).live()
posts(ents) == {e \in DOMAIN ents : ents[e].descendant /\ ents[e].live}

\* posts.filter(tags__slug=slug)
FilterByTag(qs, slug, ents) == {e \in qs : slug \in ents[e].tags}

\* posts.filter(blog_categories__slug=slug)
FilterByCategory(qs, slug, ents, cats) ==
    {e \in qs : \E c \in ents[e].cats : c \in DOMAIN cats /\ cats[c].slug = slug}

\* posts.filter(owner=author)
FilterByOwner(qs, user, ents) == {e \in qs : ents[e].owner = user}

\* posts.filter(date__year=year)
FilterByYear(qs, year, ents) == {e \in qs : YearOf(ents[e].date) = year}

\* order_by("-date"): the rows of qs, later dates first; the order of two rows
\* of one date is the database's choice
OrderByDateDesc(qs, ents) ==
    {s \in [1..Cardinality(qs) -> qs] :
        /\ \A i, j \in DOMAIN s : i # j => s[i] # s[j]
        /\ \A i, j \in DOMAIN s : i < j => ents[s[i]].date >= ents[s[j]].date}

\* get_object_or_404(Tag, slug=slug)
FindTag(slug) == IF slug \in StoredTags THEN Some(slug) ELSE None

\* get_object_or_404(Category, slug=slug, locale=locale)
FindCategory(slug, locale, cats) ==
    {c \in DOMAIN cats : cats[c].slug = slug /\ cats[c].locale = locale}

\* get_object_or_404(User, id=author)
FindUser(id) == IF id \in StoredUsers THEN Some(id) ELSE None

----------------------------------------------------------------------------
(* django.core.paginator.Paginator as get_context uses it *)

IsDigit(ch) == \E d \in DOMAIN DigitChars : DigitChars[d] = ch
DigitVal(ch) == (CHOOSE d \in DOMAIN DigitChars : DigitChars[d] = ch) - 1

RECURSIVE DigitsVal(_)
DigitsVal(s) ==
    IF s = <<>> THEN 0 ELSE DigitsVal(SubSeq(s, 1, Len(s) - 1)) * 10 + DigitVal(s[Len(s)])

\* the white space int() strips from both ends
RECURSIVE LStripSpace(_)
LStripSpace(s) ==
    IF s # <<>> /\ Head(s) \in SpaceChars THEN LStripSpace(Tail(s)) ELSE s

RECURSIVE RStripSpace(_)
RStripSpace(s) ==
    IF s # <<>> /\ s[Len(s)] \in SpaceChars
    THEN RStripSpace(SubSeq(s, 1, Len(s) - 1))
    ELSE s

\* digits, with single underscores allowed between two digits
IsIntBody(s) ==
    /\ s # <<>>
    /\ \A i \in DOMAIN s :
          \/ IsDigit(s[i])
          \/ /\ s[i] = "_"
             /\ 1 < i /\ i < Len(s)
             /\ IsDigit(s[i - 1]) /\ IsDigit(s[i + 1])

RECURSIVE OnlyDigits(_)
OnlyDigits(s) ==
    IF s = <<>> THEN <<>>
    ELSE (IF IsDigit(Head(s)) THEN <<Head(s)>> ELSE <<>>) \o OnlyDigits(Tail(s))

\* int(page) of text over Alphabet: Some(n) for white space, an optional sign,
\* digits (underscores between them), white space; None for what int() refuses
ParseInt(s) ==
    CASE \A i \in DOMAIN s : s[i] \in Alphabet ->
        LET t == RStripSpace(LStripSpace(s))
            signed == t # <<>> /\ Head(t) \in {"+", "-"}
            body == IF signed THEN Tail(t) ELSE t
        IN  IF ~IsIntBody(body) THEN None
            ELSE IF signed /\ Head(t) = "-" THEN Some(0 - DigitsVal(OnlyDigits(body)))
            ELSE Some(DigitsVal(OnlyDigits(body)))

\* str(n)
RECURSIVE NatStr(_)
NatStr(n) ==
    IF n < 10 THEN <<DigitChars[n + 1]>>
    ELSE NatStr(n \div 10) \o <<DigitChars[(n % 10) + 1]>>
IntStr(n) == IF n < 0 THEN <<"-">> \o NatStr(0 - n) ELSE NatStr(n)

\* Paginator.num_pages: ceil(count / per_page), 1 for an empty list
NumPages(count, perPage) ==
    IF count = 0 THEN 1 ELSE (count + perPage - 1) \div perPage

\* Paginator.validate_number: "PageNotAnInteger", "EmptyPage" or the number
ValidateNumber(page, count, perPage) ==
    IF page = None \/ ParseInt(Val(page)) = None
    THEN [error |-> "PageNotAnInteger", number |-> 0]
    ELSE LET n == Val(ParseInt(Val(page)))
         IN  IF n < 1 \/ n > NumPages(count, perPage)
             THEN [error |-> "EmptyPage", number |-> n]
             ELSE [error |-> Ok, number |-> n]

\* Paginator.page(number).object_list: the slice of the listing
PageSlice(listing, number, perPage) ==
    LET bottom == (number - 1) * perPage
        top == IF bottom + perPage >= Len(listing) THEN Len(listing) ELSE bottom + perPage
    IN  SubSeq(listing, bottom + 1, top)

\* EmptyPage handled like PageNotAnInteger: page 1
PageNumberFirstOnEmpty(page, count, perPage) ==
    IF ValidateNumber(page, count, perPage).error = Ok
    THEN ValidateNumber(page, count, perPage).number
    ELSE 1

\* try: paginator.page(page); except PageNotAnInteger: page(1);
\* except EmptyPage: page(num_pages)
PageNumber(page, count, perPage) ==
    LET v == ValidateNumber(page, count, perPage)
    IN  IF v.error = "PageNotAnInteger" THEN 1
        ELSE IF v.error = "EmptyPage" THEN NumPages(count, perPage)
        ELSE v.number

----------------------------------------------------------------------------
(* BlogIndexPage.get_context *)

Request(tag, category, author, year, getTag, getCategory, getPage, lang) ==
    [tag |-> tag, category |-> category, author |-> author, year |-> year,
     getTag |-> getTag, getCategory |-> getCategory, getPage |-> getPage,
     lang |-> lang]

\* breadcrumb: the titles of its links after the index's own, and "current"
Breadcrumb(links, current) == [links |-> links, current |-> current]
UserName(id) == <<"U">> \o IntStr(id)

\* breadcrumb = {...}: each filter that is on replaces the breadcrumb built so far
BreadcrumbTag(before, on, tagObj) ==
    IF on THEN Some(Breadcrumb(<<"Tags">>, Val(tagObj))) ELSE before

\* the category's breadcrumb built only when no breadcrumb is there yet
BreadcrumbCategoryKeep(before, on, name) ==
    IF on /\ before = None THEN Some(Breadcrumb(<<"Categories">>, name)) ELSE before

BreadcrumbCategory(before, on, name) ==
    IF on THEN Some(Breadcrumb(<<"Categories">>, name)) ELSE before

BreadcrumbAuthor(before, on, userObj) ==
    IF on
    THEN Some(Breadcrumb(<<>>, <<"Posts written by", " ">> \o UserName(Val(userObj))))
    ELSE before

\* Locale.objects.get(language_code=get_language()): the Locale table holds one
\* row per language of Locales
FindLocale(lang) == IF lang \in Locales THEN Some(lang) ELSE None

\* tag: the argument, or request.GET.get("tag") when the argument is None
TagGiven(req) == IF req.tag = None THEN req.getTag ELSE req.tag

\* the category object get_context works with from line 85 on: None, a Category
\* row ("object"), or the argument left as the string it came as ("str")
CategoryAt85(req, cats) ==
    IF req.category = None
    THEN IF TruthyStr(req.getCategory)
         THEN LET found == FindCategory(Val(req.getCategory), req.lang, cats)
              IN  IF found = {} THEN [kind |-> "404", pk |-> NullPk]
                  ELSE [kind |-> "object", pk |-> Val(found)]
         ELSE [kind |-> "None", pk |-> NullPk]
    ELSE IF ~TruthyStr(req.category)
         THEN [kind |-> "emptystr", pk |-> NullPk]
         ELSE IF ~TruthyStr(req.getCategory)
              THEN LET found == FindCategory(Val(req.category), req.lang, cats)
                   IN  IF found = {} THEN [kind |-> "404", pk |-> NullPk]
                       ELSE [kind |-> "object", pk |-> Val(found)]
              ELSE [kind |-> "str", pk |-> NullPk]

Failure(req, status) ==
    [op |-> "get_context", req |-> req, status |-> status, listing |-> <<>>,
     posts |-> <<>>, number |-> 0, numPages |-> 0, tag |-> None, category |-> None,
     author |-> None, year |-> None, breadcrumb |-> None]

\* The contexts (or failures) get_context can end in for req: a context, Http404
\* ("404"), Locale.DoesNotExist or AttributeError.
get_context(req, ents, cats, perPage) ==
    LET tagGiven == TagGiven(req)
        tagOn == TruthyStr(tagGiven)
        tagObj == IF tagOn THEN FindTag(Val(tagGiven)) ELSE None
        cat == CategoryAt85(req, cats)
        userOn == TruthyInt(req.author)
        userObj == IF userOn THEN FindUser(Val(req.author)) ELSE None
        yearOn == TruthyInt(req.year)
    IN  IF FindLocale(req.lang) = None THEN {Failure(req, "DoesNotExist")}
        ELSE IF tagOn /\ tagObj = None THEN {Failure(req, "404")}
        ELSE IF cat.kind = "404" THEN {Failure(req, "404")}
        ELSE IF cat.kind = "str" THEN {Failure(req, "AttributeError")}
        ELSE IF userOn /\ userObj = None THEN {Failure(req, "404")}
        ELSE IF cat.kind = "emptystr" THEN {Failure(req, "AttributeError")}
        ELSE
        LET q0 == posts(ents)
            q1 == IF tagOn THEN FilterByTag(q0, Val(tagObj), ents) ELSE q0
            b1 == BreadcrumbTag(None, tagOn, tagObj)
            q2 == IF cat.kind = "object"
                  THEN FilterByCategory(q1, cats[cat.pk].slug, ents, cats) ELSE q1
            b2 == BreadcrumbCategory(b1, cat.kind = "object",
                                     IF cat.kind = "object" THEN cats[cat.pk].name
                                     ELSE EmptyStr)
            q3 == IF userOn THEN FilterByOwner(q2, Val(userObj), ents) ELSE q2
            b3 == BreadcrumbAuthor(b2, userOn, userObj)
            q4 == IF yearOn THEN FilterByYear(q3, Val(req.year), ents) ELSE q3
            number == PageNumber(req.getPage, Cardinality(q4), perPage)
        IN  { [op |-> "get_context", req |-> req, status |-> "context",
               listing |-> listing,
               posts |-> PageSlice(listing, number, perPage),
               number |-> number,
               numPages |-> NumPages(Cardinality(q4), perPage),
               tag |-> IF tagOn THEN tagObj ELSE tagGiven,
               category |-> IF cat.kind = "object" THEN Some(cats[cat.pk].name) ELSE None,
               author |-> IF userOn THEN userObj ELSE req.author,
               year |-> req.year,
               breadcrumb |-> b3] : listing \in OrderByDateDesc(q4, ents) }

\* get_context(request, tag, category, author, year); getTag, getCategory and
\* getPage are request.GET, lang is get_language()
GetContext(tag, category, author, year, getTag, getCategory, getPage, lang) ==
    /\ Idle
    /\ LET req == Request(tag, category, author, year, getTag, getCategory, getPage, lang)
       IN  \E out \in get_context(req, entries, categories, postsPerPage) :
              response' = out
    /\ UNCHANGED <<categories, categorySeq, inflight, lastOp, entries, postsPerPage>>

----------------------------------------------------------------------------
(* BlogIndexPage.list_tags, BlogIndexPage.list_categories *)

Row(slug, name, count) == [slug |-> slug, name |-> name, count |-> count]

\* posts.values(tag_name=F("tags__name"), tag_slug=F("tags__slug")): one joined
\* row per (entry, tag), and one row of NULLs for an entry without a tag;
\* annotate(tag_count=Count("tag_slug")) groups them and counts the non-NULL slugs
TagGroups(qs, ents) ==
    {Some(t) : t \in UNION {ents[e].tags : e \in qs}}
    \cup (IF \E e \in qs : ents[e].tags = {} THEN {None} ELSE {})

TagCount(g, qs, ents) ==
    IF g = None THEN 0 ELSE Cardinality({e \in qs : Val(g) \in ents[e].tags})

TagRows(qs, ents) ==
    {Row(g, IF g = None THEN None ELSE Some(TagName(Val(g))), TagCount(g, qs, ents)) :
        g \in TagGroups(qs, ents)}

\* the same for values(cat_slug=F("blog_categories__slug"), cat_name=...)
CategoryGroups(qs, ents) ==
    {Some(c) : c \in UNION {ents[e].cats : e \in qs}}
    \cup (IF \E e \in qs : ents[e].cats = {} THEN {None} ELSE {})

CategoryCount(g, qs, ents) ==
    IF g = None THEN 0 ELSE Cardinality({e \in qs : Val(g) \in ents[e].cats})

CategoryRows(qs, ents, cats) ==
    {Row(IF g = None THEN None ELSE Some(cats[Val(g)].slug),
         IF g = None THEN None ELSE Some(cats[Val(g)].name),
         CategoryCount(g, qs, ents)) :
        g \in CategoryGroups(qs, ents)}

\* .filter(count__gte=minCount)
FilterCountGte(rows, minCount) == {r \in rows : r.count >= minCount}

\* .order_by("-count"): larger counts first; the order of equal counts is the
\* database's choice
OrderByCountDesc(rows) ==
    {s \in [1..Cardinality(rows) -> rows] :
        /\ \A i, j \in DOMAIN s : i # j => s[i] # s[j]
        /\ \A i, j \in DOMAIN s : i < j => s[i].count >= s[j].count}

list_tags(minCount, ents) ==
    OrderByCountDesc(FilterCountGte(TagRows(posts(ents), ents), minCount))

list_categories(ents, cats) ==
    OrderByCountDesc(FilterCountGte(CategoryRows(posts(ents), ents, cats), 1))

ListTags(minCount) ==
    /\ Idle
    /\ \E rows \in list_tags(minCount, entries) :
          response' = [op |-> "list_tags", minCount |-> minCount, rows |-> rows]
    /\ UNCHANGED <<categories, categorySeq, inflight, lastOp, entries, postsPerPage>>

ListCategories ==
    /\ Idle
    /\ \E rows \in list_categories(entries, categories) :
          response' = [op |-> "list_categories", minCount |-> 1, rows |-> rows]
    /\ UNCHANGED <<categories, categorySeq, inflight, lastOp, entries, postsPerPage>>

----------------------------------------------------------------------------
(* Blog specifications *)

MissingSlug == <<"z">>
MissingUser == MaxUsers + 1
\* a language get_language() can return that has no Locale row
MissingLang == "de"

\* filters of every kind
FilterGetContext ==
    \E tag \in {None, Some(TagA), Some(MissingSlug)},
       category \in {None, Some(SlugA), Some(MissingSlug)},
       author \in {None, Some(1), Some(MissingUser)},
       year \in {None, Some(2024)},
       getTag \in {None, Some(TagB)},
       getCategory \in {None, Some(SlugB)},
       lang \in Locales \cup {MissingLang} :
        GetContext(tag, category, author, year, getTag, getCategory, None, lang)

NextFilter == FilterGetContext \/ Respond

SpecFilter == InitFilter /\ [][NextFilter]_vars

\* the values of the page query parameter
PageArgs ==
    {None, Some(EmptyStr), Some(<<"a">>), Some(<<"1", ".", "5">>), Some(<<"+", "1">>),
     Some(<<" ", "2">>), Some(<<"1", "_", "0">>), Some(<<"1", "_">>)}
    \cup {Some(IntStr(n)) : n \in (0 - 1)..(MaxEntries + PageBeyond)}

\* pages of every kind, one filter
PageGetContext ==
    \E tag \in {None, Some(TagB)}, getPage \in PageArgs :
        GetContext(tag, None, None, None, None, None, getPage, DefaultLocale)

NextPage == PageGetContext \/ Respond

SpecPage == InitBlog /\ [][NextPage]_vars

ListsTags == \E minCount \in 0..MaxMinCount : ListTags(minCount)

NextLists == ListsTags \/ ListCategories \/ Respond

SpecLists == InitBlog /\ [][NextLists]_vars

----------------------------------------------------------------------------
(* Category claims *)

\* lastOp' is a save of the stored category pk with parent = pk
SavesSelfParent ==
    /\ lastOp'.op = "save"
    /\ lastOp'.pk \in DOMAIN categories
    /\ lastOp'.parent = lastOp'.pk

\* C1: saving any stored category C with parent = C, whatever its other
\* fields and the other rows, ends in the validation error 'Parent category
\* cannot be self.' and writes nothing.
C1_SelfParentRejected ==
    [][SavesSelfParent => (lastOp'.result = ErrSelf /\ categories' = categories)]_vars

\* What holds of C1: clean() on a stored category C with parent = C ends in
\* 'Parent category cannot be self.'
C1_CleanRejectsSelfParent ==
    (lastOp.op = "clean" /\ lastOp.pk # NullPk /\ lastOp.parent = lastOp.pk)
        => lastOp.result = ErrSelf

\* lastOp' is a call on the stored category C with parent = P, where P is
\* another stored category whose parent is C
OnParentOfParent ==
    /\ lastOp'.pk \in DOMAIN categories
    /\ lastOp'.parent \in DOMAIN categories
    /\ lastOp'.parent # lastOp'.pk
    /\ categories[lastOp'.parent].parent = lastOp'.pk

\* C2: for distinct categories C and P with P.parent = C, saving C with
\* parent = P ends in the validation error 'Cannot have circular Parents.'
\* and writes nothing.
C2_CircularParentRejected ==
    [][(lastOp'.op = "save" /\ OnParentOfParent)
          => (lastOp'.result = ErrCircular /\ categories' = categories)]_vars

\* What holds of C2: clean() on C with parent = P, P.parent being C, ends in
\* 'Cannot have circular Parents.'
C2_CleanRejectsParentOfParent ==
    [][(lastOp'.op = "clean" /\ OnParentOfParent) => lastOp'.result = ErrCircular]_vars

\* C3: in every state reached by creations, parent changes checked by clean()
\* and stored by save(), and deletions, no category is its own parent and no
\* category is the parent of its own parent.
C3_NoSelfNoTwoCycle ==
    \A c \in DOMAIN categories :
        /\ categories[c].parent # c
        /\ categories[c].parent # NullPk =>
              /\ categories[c].parent \in DOMAIN categories
              /\ categories[categories[c].parent].parent # c

\* lastOp' is a call on the stored category C with parent = P where C is an
\* ancestor of P two or more levels up: storing it closes a cycle of three or more
ClosesLongCycle ==
    /\ lastOp'.op \in {"clean", "save"}
    /\ lastOp'.pk \in DOMAIN categories
    /\ lastOp'.parent \in DOMAIN categories
    /\ lastOp'.parent # lastOp'.pk
    /\ categories[lastOp'.parent].parent # lastOp'.pk
    /\ lastOp'.pk \in Ancestors(lastOp'.parent, categories)

\* C4: the parent check is two levels deep: a parent change that closes a cycle
\* of length three or more passes clean() with no validation error and is
\* stored by save().
C4_LongCycleAccepted ==
    [][ClosesLongCycle =>
          /\ lastOp'.result = Ok
          /\ lastOp'.op = "save" => categories'[lastOp'.pk].parent = lastOp'.parent]_vars

\* A -> B -> C -> A is stored, the last of the three changes having passed
\* clean() and just been saved
C4_Witness ==
    /\ lastOp.op = "save"
    /\ lastOp.result = Ok
    /\ \E a, b, c \in DOMAIN categories :
          /\ a # b /\ b # c /\ a # c
          /\ categories[a].parent = b
          /\ categories[b].parent = c
          /\ categories[c].parent = a
          /\ lastOp.pk = c /\ lastOp.parent = a

Actualites == <<"A", "c", "t", "u", "a", "l", "i", "t", "é", "s">>

\* the slug each name is to give, written out by hand
ExpectedSlug(name) ==
    CASE name = <<"A", "é">> -> <<"a", "e">>
      [] name = <<"a", "e">> -> <<"a", "e">>
      [] name = <<"D", "\t", "-", "1", "!">> -> <<"d", "-", "1">>
      [] name = <<"_", "€">> -> <<>>
      [] name = Actualites -> <<"a", "c", "t", "u", "a", "l", "i", "t", "e", "s">>

\* C9: a save that goes through stores slug = slugify(name) when the slug given
\* is empty and the slug given otherwise; name, parent and description are
\* stored as given. 'Actualités' gives 'actualites'.
C9_SlugDerivedWhenEmpty ==
    /\ slugify(Actualites) = ExpectedSlug(Actualites)
    /\ (lastOp.op = "save" /\ lastOp.result = Ok) =>
          /\ lastOp.stored \in DOMAIN categories
          /\ LET row == categories[lastOp.stored]
             IN  /\ row.slug = IF lastOp.slug = EmptyStr
                               THEN ExpectedSlug(lastOp.name)
                               ELSE lastOp.slug
                 /\ row.name = lastOp.name
                 /\ row.parent = lastOp.parent
                 /\ row.description = lastOp.description

C9_Witness ==
    /\ lastOp.op = "save"
    /\ lastOp.result = Ok
    /\ lastOp.slug = EmptyStr
    /\ lastOp.name = <<"D", "\t", "-", "1", "!">>
    /\ lastOp.parent # NullPk
    /\ lastOp.description # EmptyStr
    /\ categories[lastOp.stored].slug = <<"d", "-", "1">>

----------------------------------------------------------------------------
(* Blog claims *)

IsContext == response.op = "get_context" /\ response.status = "context"

\* the filters a request asks for, read off the request alone
AskedTag(req) == IF req.tag = None THEN req.getTag ELSE req.tag
AskedCategory(req) == IF req.category = None THEN req.getCategory ELSE req.category
TagAsked(req) == AskedTag(req) \notin {None, Some(EmptyStr)}
CategoryAsked(req) == AskedCategory(req) \notin {None, Some(EmptyStr)}
AuthorAsked(req) == req.author \notin {None, Some(0)}
YearAsked(req) == req.year \notin {None, Some(0)}

\* entry e passes every filter req asks for
PassesAsked(e, req) ==
    /\ TagAsked(req) => Val(AskedTag(req)) \in entries[e].tags
    /\ CategoryAsked(req) =>
          \E c \in entries[e].cats : categories[c].slug = Val(AskedCategory(req))
    /\ AuthorAsked(req) => entries[e].owner = Val(req.author)
    /\ YearAsked(req) => YearOf(entries[e].date) = Val(req.year)

LiveDescendant(e) == entries[e].live /\ entries[e].descendant

\* C5: the entries get_context paginates are exactly the live descendant
\* entries that pass all the filters asked for at once, each once, later
\* dates first.
C5_ListingIsFilteredLiveDescendants ==
    IsContext =>
        LET l == response.listing
        IN  /\ {l[i] : i \in DOMAIN l} =
                  {e \in DOMAIN entries : LiveDescendant(e) /\ PassesAsked(e, response.req)}
            /\ \A i, j \in DOMAIN l : i < j =>
                  /\ l[i] # l[j]
                  /\ entries[l[i]].date >= entries[l[j]].date

\* tag, category, author and year are all asked for; an entry is listed, a live
\* descendant fails a filter and a draft passes them all
C5_Witness ==
    /\ IsContext
    /\ TagAsked(response.req) /\ CategoryAsked(response.req)
    /\ AuthorAsked(response.req) /\ YearAsked(response.req)
    /\ response.listing # <<>>
    /\ \E e \in DOMAIN entries : LiveDescendant(e) /\ ~PassesAsked(e, response.req)
    /\ \E e \in DOMAIN entries : ~entries[e].live /\ PassesAsked(e, response.req)

\* the integer a page parameter stands for, None when it stands for none
AskedPage(p) ==
    IF p = Some(<<"+", "1">>) THEN Some(1)
    ELSE IF p = Some(<<" ", "2">>) THEN Some(2)
    ELSE IF p = Some(<<"1", "_", "0">>) THEN Some(10)
    ELSE IF \E n \in (0 - 1)..(MaxEntries + PageBeyond) : p = Some(IntStr(n))
         THEN Some(CHOOSE n \in (0 - 1)..(MaxEntries + PageBeyond) : p = Some(IntStr(n)))
         ELSE None

\* the number of pages of n entries, k to a page: the least m >= 1 with m * k >= n
PagesOf(n, k) == CHOOSE m \in 1..(n + 1) : m * k >= n /\ \A o \in 1..(n + 1) : o * k >= n => m <= o

\* C6: get_context raises no pagination error and returns page 1 when the page
\* parameter is absent or no integer, the page asked for when it is in
\* 1..num_pages, and the last page otherwise; the page holds at most
\* posts_per_page entries, in listing order.
C6_PageClamped ==
    response.op = "get_context" =>
        /\ response.status = "context"
        /\ LET n == Len(response.listing)
               k == postsPerPage
               last == PagesOf(n, k)
               asked == AskedPage(response.req.getPage)
               number == IF asked = None THEN 1
                         ELSE IF Val(asked) \in 1..last THEN Val(asked)
                         ELSE last
               top == IF number * k < n THEN number * k ELSE n
           IN  /\ response.numPages = last
               /\ response.number = number
               /\ response.posts = SubSeq(response.listing, (number - 1) * k + 1, top)
               /\ Len(response.posts) <= k

\* page ceil(N/K) + 5 of N = MaxEntries entries, one to a page: the last entry
C6_Witness ==
    /\ IsContext
    /\ postsPerPage = 1
    /\ Len(response.listing) = MaxEntries
    /\ response.req.getPage = Some(IntStr(MaxEntries + PageBeyond))
    /\ response.number = MaxEntries
    /\ response.posts = <<response.listing[MaxEntries]>>

\* the rows of a list_tags or list_categories answer, as a set
RowsOf(resp) == {resp.rows[i] : i \in DOMAIN resp.rows}

UsedTags == UNION {entries[e].tags : e \in {x \in DOMAIN entries : LiveDescendant(x)}}
UsedCategories == UNION {entries[e].cats : e \in {x \in DOMAIN entries : LiveDescendant(x)}}
CarryingTag(t) == Cardinality({e \in DOMAIN entries : LiveDescendant(e) /\ t \in entries[e].tags})
CarryingCategory(c) ==
    Cardinality({e \in DOMAIN entries : LiveDescendant(e) /\ c \in entries[e].cats})

RowsSorted(resp) ==
    \A i, j \in DOMAIN resp.rows : i < j =>
        /\ resp.rows[i] # resp.rows[j]
        /\ resp.rows[i].count >= resp.rows[j].count

\* C7: list_tags(min_count) and list_categories() return one row per tag
\* (category) used by the live descendant entries, with the number of entries
\* carrying it, exactly those whose count is at least the threshold, larger
\* counts first, and leave the stored data as it is.
C7_RowsAreUsageCounts ==
    /\ response.op = "list_tags" =>
          /\ RowsOf(response) =
                {Row(Some(t), Some(TagName(t)), CarryingTag(t)) :
                    t \in {u \in UsedTags : CarryingTag(u) >= response.minCount}}
          /\ RowsSorted(response)
    /\ response.op = "list_categories" =>
          /\ RowsOf(response) =
                {Row(Some(categories[c].slug), Some(categories[c].name), CarryingCategory(c)) :
                    c \in {u \in UsedCategories : CarryingCategory(u) >= 1}}
          /\ RowsSorted(response)

\* the same with min_count >= 1
C7_RowsAreUsageCountsFromOne ==
    (response.op = "list_tags" => response.minCount >= 1) => C7_RowsAreUsageCounts

\* a request names a tag, category or author that is not stored
NamesMissing(req) ==
    \/ TagAsked(req) /\ Val(AskedTag(req)) \notin StoredTags
    \/ CategoryAsked(req) /\
          ~\E c \in DOMAIN categories :
              categories[c].slug = Val(AskedCategory(req)) /\ categories[c].locale = req.lang
    \/ AuthorAsked(req) /\ Val(req.author) \notin StoredUsers

\* C8: get_context returns a context or ends in not-found, whatever the
\* arguments and query parameters; a tag, category or author that is not
\* stored gives not-found.
C8_ContextOrNotFound ==
    response.op = "get_context" =>
        /\ response.status \in {"context", "404"}
        /\ NamesMissing(response.req) => response.status = "404"

\* C10: the context carries at most one breadcrumb, none when no tag, category
\* or author filter is on; the author's replaces the category's, which
\* replaces the tag's.
C10_LastFilterBreadcrumb ==
    IsContext =>
        LET req == response.req
            b == response.breadcrumb
        IN  /\ Cardinality(b) <= 1
            /\ IF AuthorAsked(req)
               THEN b = Some(Breadcrumb(<<>>, <<"Posts written by", " ">>
                                              \o UserName(Val(req.author))))
               ELSE IF CategoryAsked(req)
               THEN \E c \in DOMAIN categories :
                       /\ categories[c].slug = Val(AskedCategory(req))
                       /\ b = Some(Breadcrumb(<<"Categories">>, categories[c].name))
               ELSE IF TagAsked(req)
               THEN b = Some(Breadcrumb(<<"Tags">>, Val(AskedTag(req))))
               ELSE b = None

\* a tag and a category are asked for and no author: the category's breadcrumb
C10_Witness ==
    /\ IsContext
    /\ TagAsked(response.req) /\ CategoryAsked(response.req)
    /\ ~AuthorAsked(response.req)
    /\ response.breadcrumb = Some(Breadcrumb(<<"Categories">>, <<"C", "a">>))
    /\ response.listing # <<>>

====
